---- MODULE Spec2Model ----
(***************************************************************************)
(* Model of the medical-assistant pipeline: the keyword safety layer       *)
(* (safety.py), the prompt builder (prompts.py), the reply parser and the  *)
(* /api/ask handler (main.py) with its call to the LLM (inference.py).     *)
(*                                                                         *)
(* A Python str is a sequence of symbols.  A symbol stands for a run of    *)
(* characters that is never cut in the texts considered: a keyword of the  *)
(* code, a punctuation mark, a blank, a word.  Substring tests of the code *)
(* ("k in s", str.find) are contiguous-subsequence tests on symbols.       *)
(***************************************************************************)
EXTENDS Integers, Sequences, FiniteSets, TLC

VARIABLES
    pc,         \* per request: position of the request in ask_medical
    req,        \* per request: the AskRequest body
    loop,       \* the request whose handler occupies the event-loop thread, 0 if none
    resp,       \* per request: what the caller gets back
    frame,      \* per request: locals of the handler while it is inside call_llm
    llmArgs,    \* per request: arguments the handler passed to call_llm
    llmResult,  \* per request: what call_llm returned or raised
    calls,      \* per request: how often each pipeline stage ran
    safetyIn,   \* input of safety_check when checked on its own
    safetyOut,  \* its result
    promptIn,   \* input of build_prompt when checked on its own
    promptOut,  \* its result
    parseIn,    \* input of parse_severity_json when checked on its own
    parseOut    \* its result

vars == <<pc, req, loop, resp, frame, llmArgs, llmResult, calls,
          safetyIn, safetyOut, promptIn, promptOut, parseIn, parseOut>>

\* Optional[T]: None is the empty sequence, a value x is Some(x)
None == <<>>
Some(x) == <<x>>

-----------------------------------------------------------------------------
(* Bounds of the model.                                                    *)

MaxLen == 4         \* symbols in a text given to safety_check
MaxQ == 2           \* symbols in a question given to build_prompt
MaxBody == 2        \* symbols between the braces of a reply's JSON block
NumReq == 2         \* concurrent requests to /api/ask

-----------------------------------------------------------------------------
(* Python str operations on symbol sequences.                              *)

RECURSIVE SeqsUpTo(_, _)
SeqsUpTo(S, n) ==
    IF n = 0 THEN {<<>>}
    ELSE LET shorter == SeqsUpTo(S, n - 1)
         IN  shorter \cup {Append(s, x) : s \in {t \in shorter : Len(t) = n - 1}, x \in S}

\* s[i:j] of Python, 0-based, j exclusive
Slice(s, i, j) == IF j <= i THEN <<>> ELSE SubSeq(s, i + 1, j)

\* sub occurs in s starting at 0-based position i
OccursAt(s, sub, i) ==
    /\ i + Len(sub) <= Len(s)
    /\ \A k \in 1..Len(sub) : s[i + k] = sub[k]

\* "sub in s"
Contains(s, sub) == \E i \in 0..Len(s) : OccursAt(s, sub, i)

\* any(k in s for k in ks)
ContainsAny(s, ks) == \E k \in ks : Contains(s, k)

\* s.find(sub): first position, -1 when absent
Find(s, sub) ==
    IF Contains(s, sub)
    THEN CHOOSE i \in 0..Len(s) :
            OccursAt(s, sub, i) /\ \A j \in 0..(i - 1) : ~OccursAt(s, sub, j)
    ELSE -1

\* s.rfind(sub): last position, -1 when absent
RFind(s, sub) ==
    IF Contains(s, sub)
    THEN CHOOSE i \in 0..Len(s) :
            OccursAt(s, sub, i) /\ \A j \in (i + 1)..Len(s) : ~OccursAt(s, sub, j)
    ELSE -1

\* number of positions of s at which sub starts
Count(s, sub) == Cardinality({i \in 0..Len(s) : OccursAt(s, sub, i)})

Whitespace == {" ", "\n"}

RECURSIVE LStrip(_)
LStrip(s) ==
    IF s # <<>> /\ Head(s) \in Whitespace THEN LStrip(Tail(s)) ELSE s

RECURSIVE RStrip(_)
RStrip(s) ==
    IF s # <<>> /\ s[Len(s)] \in Whitespace THEN RStrip(SubSeq(s, 1, Len(s) - 1)) ELSE s

\* s.strip()
Strip(s) == RStrip(LStrip(s))

\* str.lower() on one symbol: the upper-case spellings used in the texts
LowerSym(c) ==
    CASE c = "CHEST PAIN" -> "chest pain"
      [] c = "SUICIDE" -> "suicide"
      [] c = "CAN'T BREATHE" -> "can't breathe"
      [] OTHER -> c

\* s.lower()
Lower(s) == [i \in 1..Len(s) |-> LowerSym(s[i])]

-----------------------------------------------------------------------------
(* safety.py                                                               *)
(* A Chinese keyword of the code is written "zh:" followed by its pinyin;  *)
(* a keyword is one symbol unless it contains another keyword, as          *)
(* "zh:yanzhong" "zh:huxikunnan" and "zh:yicezhiti" "zh:wu" "zh:li" do.    *)

\* the character class of re.split in split_sentences; the three full-width
\* marks are written by their code points
Delimiters == {".", "!", "?", "\n", "U+3002", "U+FF01", "U+FF1F"}

\* re.split on runs of delimiters: the pieces between delimiters
RECURSIVE ReSplit(_, _, _)
ReSplit(s, cur, acc) ==
    IF s = <<>> THEN Append(acc, cur)
    ELSE IF Head(s) \in Delimiters
         THEN ReSplit(Tail(s), <<>>, Append(acc, cur))
         ELSE ReSplit(Tail(s), Append(cur, Head(s)), acc)

\* [p.strip() for p in parts if p.strip()]
RECURSIVE StripNonEmpty(_)
StripNonEmpty(parts) ==
    IF parts = <<>> THEN <<>>
    ELSE LET p == Strip(Head(parts))
         IN  IF p = <<>> THEN StripNonEmpty(Tail(parts))
             ELSE <<p>> \o StripNonEmpty(Tail(parts))

split_sentences(text) == StripNonEmpty(ReSplit(Lower(text), <<>>, <<>>))

NEG_WORDS ==
    { <<"no", " ">>, <<"without", " ">>, <<"denies", " ">>, <<"haven't", " ">>,
      <<"hasn't", " ">>, <<"zh:meiyou">>, <<"zh:wu(trad)">>, <<"zh:wu">>, <<"zh:meiyou(trad)">> }

sentence_has_negation(sent) == ContainsAny(sent, NEG_WORDS)

chest_pain_terms == { <<"chest pain">>, <<"zh:xiongtong">> }

radiating_terms ==
    { <<"left ", "arm">>, <<"jaw">>, <<"radiat">>, <<"back">>, <<"shoulder">>,
      <<"zh:zuobi">>, <<"zh:xiahe">>, <<"zh:houbei">>, <<"zh:jian">> }

sob_terms ==
    { <<"shortness of breath">>, <<"short of breath">>, <<"zh:qiduan">>, <<"zh:huxikunnan">> }

sweating_terms == { <<"sweating">>, <<"cold sweat">>, <<"zh:dahan">> }

breathing_terms_en == { <<"can't breathe">>, <<"cannot breathe">>, <<"unable to breathe">> }
breathing_terms_zh == { <<"zh:chuanbuguolai">>, <<"zh:huxibuguolai">>, <<"zh:yanzhong", "zh:huxikunnan">> }

gi_keywords ==
    { <<"vomiting blood">>, <<"bloody vomit">>, <<"black stool">>, <<"tarry stool">>,
      <<"zh:ouxue">>, <<"zh:heibian">> }

stroke_terms_en ==
    { <<"sudden weakness on one side">>, <<"face drooping">>, <<"slurred speech">> }
stroke_terms_zh == { <<"zh:turanshuobuchuhua">>, <<"zh:yicezhiti", "zh:wu", "zh:li">>, <<"zh:koujiaowaixie">> }

suicide_terms_en == { <<"kill myself">>, <<"end my life">>, <<"suicide">> }
suicide_terms_zh == { <<"zh:zisha">>, <<"zh:xiangsi">> }

warning_terms_en ==
    { <<"shortness of breath">>, <<"short of breath">>, <<"blood in stool">>,
      <<"black stool">>, <<"vomiting blood">>, <<"unintentional weight loss">>,
      <<"severe pain">>, <<"chest tightness">> }
warning_terms_zh == { <<"zh:qiduan">>, <<"zh:bianxue">>, <<"zh:tizhongxiajiang">>, <<"zh:xiongmen">> }

MsgCardiac ==
    "Detected severe chest pain with concerning features. Call emergency services immediately."
MsgBreathing ==
    "Detected severe breathing difficulty. Call emergency services immediately."
MsgGI ==
    "Detected possible gastrointestinal bleeding. Please seek emergency care immediately."
MsgStroke ==
    "Detected possible stroke symptoms. Call emergency services immediately."
MsgSuicide ==
    "Detected suicidal thoughts. Immediate help is required. Contact emergency services or a crisis hotline."
MsgWarning ==
    "Detected potentially concerning symptoms. Please seek medical evaluation soon."
MsgSafe ==
    "No emergency features detected. This tool provides general health information only."

\* CardiacSentence without the negation test
CardiacSentence_NoNegation(s) ==
    /\ ContainsAny(s, chest_pain_terms)
    /\ \/ ContainsAny(s, radiating_terms)
       \/ ContainsAny(s, sob_terms)
       \/ ContainsAny(s, sweating_terms)

\* body of the loop of cluster 1 for one sentence
CardiacSentence(s) ==
    /\ ContainsAny(s, chest_pain_terms)
    /\ ~sentence_has_negation(s)
    /\ \/ ContainsAny(s, radiating_terms)
       \/ ContainsAny(s, sob_terms)
       \/ ContainsAny(s, sweating_terms)

\* cluster 1: some sentence makes the loop return
CardiacCluster(sentences) ==
    \E i \in 1..Len(sentences) : CardiacSentence(sentences[i])

\* cluster 2
BreathingCluster(t, text) ==
    ContainsAny(t, breathing_terms_en) \/ ContainsAny(text, breathing_terms_zh)

\* cluster 3
GICluster(sentences) ==
    \E i \in 1..Len(sentences) :
        ContainsAny(sentences[i], gi_keywords) /\ ~sentence_has_negation(sentences[i])

\* cluster 4
StrokeCluster(t, text) ==
    ContainsAny(t, stroke_terms_en) \/ ContainsAny(text, stroke_terms_zh)

\* SuicideCluster matching the English keywords against the raw text
SuicideCluster_CaseSensitive(t, text) ==
    ContainsAny(text, suicide_terms_en) \/ ContainsAny(text, suicide_terms_zh)

\* cluster 5
SuicideCluster(t, text) ==
    ContainsAny(t, suicide_terms_en) \/ ContainsAny(text, suicide_terms_zh)

\* cluster 6
has_warning(t, text) ==
    ContainsAny(t, warning_terms_en) \/ ContainsAny(text, warning_terms_zh)

\* safety_check with the warning test moved in front of clusters 3 to 5
safety_check_WarningFirst(text) ==
    LET t == Lower(text)
        sentences == split_sentences(text)
    IN  IF CardiacCluster(sentences) THEN <<"emergency", MsgCardiac>>
        ELSE IF BreathingCluster(t, text) THEN <<"emergency", MsgBreathing>>
        ELSE IF has_warning(t, text) THEN <<"warning", MsgWarning>>
        ELSE IF GICluster(sentences) THEN <<"emergency", MsgGI>>
        ELSE IF StrokeCluster(t, text) THEN <<"emergency", MsgStroke>>
        ELSE IF SuicideCluster(t, text) THEN <<"emergency", MsgSuicide>>
        ELSE <<"safe", MsgSafe>>

safety_check(text) ==
    LET t == Lower(text)
        sentences == split_sentences(text)
    IN  IF CardiacCluster(sentences) THEN <<"emergency", MsgCardiac>>
        ELSE IF BreathingCluster(t, text) THEN <<"emergency", MsgBreathing>>
        ELSE IF GICluster(sentences) THEN <<"emergency", MsgGI>>
        ELSE IF StrokeCluster(t, text) THEN <<"emergency", MsgStroke>>
        ELSE IF SuicideCluster(t, text) THEN <<"emergency", MsgSuicide>>
        ELSE IF has_warning(t, text) THEN <<"warning", MsgWarning>>
        ELSE <<"safe", MsgSafe>>

\* symbols of the texts given to safety_check: three vocabularies, one for the
\* chest-pain rule and its negation, one for its spellings, one for the cascade
AlphaCardiac == { "chest pain", "no", " ", ".", "radiat", "left ", "arm" }
AlphaSpelling ==
    { "CHEST PAIN", "zh:xiongtong", "zh:meiyou", "shortness of breath", "sweating",
      "zh:zisha", "." }
AlphaCascade ==
    { "SUICIDE", "can't breathe", "slurred speech", "vomiting blood", "severe pain",
      "no", " ", "." }

SafetyTexts ==
    SeqsUpTo(AlphaCardiac, MaxLen) \cup SeqsUpTo(AlphaSpelling, MaxLen)
        \cup SeqsUpTo(AlphaCascade, MaxLen)

InitSafety ==
    /\ safetyIn \in SafetyTexts
    /\ safetyOut = None

\* one call safety_check(text)
SafetyCheck ==
    /\ safetyOut = None
    /\ safetyOut' = safety_check(safetyIn)
    /\ UNCHANGED <<safetyIn>>

-----------------------------------------------------------------------------
(* prompts.py                                                              *)
(* A fixed text of the template is one symbol, named by its first words.   *)

TaskTypes == {"medical_qa", "diagnosis", "drug", "lab", "education"}
Languages == {"zh", "en"}

\* the token that separates the answer from the JSON block
Marker == <<"###JSON###">>

BASE_SYSTEM_PROMPT == <<"You are a cautious, evidence-informed medical-style assistant ...\n">>

LangZh ==
    <<"Please answer in Simplified Chinese (zh:jiantizhongwen), unless the user clearly uses another language.">>
LangEn == <<"Please answer in English.">>

\* lang_instruction with the two branches exchanged
lang_instruction_Swapped(language) == IF language = "zh" THEN LangEn ELSE LangZh

lang_instruction(language) == IF language = "zh" THEN LangZh ELSE LangEn

task_instruction(task_type) ==
    CASE task_type = "medical_qa" ->
            <<"Task: Provide general medical information and suggestions ...">>
      [] task_type = "diagnosis" ->
            <<"Task: Provide diagnostic-style reasoning (chain-of-thought) ...">>
      [] task_type = "drug" ->
            <<"Task: Provide information about medications ...">>
      [] task_type = "lab" ->
            <<"Task: Provide a general interpretation of lab or imaging results ...">>
      [] task_type = "education" ->
            <<"Task: Provide health education and lifestyle advice ...">>
      [] OTHER ->
            <<"Task: Provide general medical-style information based on the user's question.">>

severity_instruction ==
    <<"\nAfter you finish the full human-readable answer, on a new line output:\n">>
      \o Marker
      \o <<" followed by a single-line JSON object with this exact schema: ... The JSON must be valid.\n">>

TripleQuote == "\"\"\""

build_prompt(task_type, user_question, language) ==
    BASE_SYSTEM_PROMPT \o <<"\n", "\n">>
      \o lang_instruction(language) \o <<"\n", "\n">>
      \o task_instruction(task_type) \o <<"\n", "\n">>
      \o <<"User question:", "\n", TripleQuote>> \o user_question \o <<TripleQuote, "\n", "\n">>
      \o <<"Now provide your answer in a clear, structured format, with headings and bullet points when helpful.", "\n">>
      \o severity_instruction \o <<"\n">>

\* symbols of the questions given to build_prompt
AlphaQuestion ==
    { "fever", " ", "###JSON###", "Please answer in English.", TripleQuote } \cup
    { LangZh[1] }

PromptInputs ==
    {<<tt, q, lang>> : tt \in TaskTypes \cup {"triage"},
                       q \in SeqsUpTo(AlphaQuestion, MaxQ), lang \in Languages}

InitPrompt ==
    /\ promptIn \in PromptInputs
    /\ promptOut = None

\* one call build_prompt(task_type, user_question, language)
BuildPrompt ==
    /\ promptOut = None
    /\ promptOut' = build_prompt(promptIn[1], promptIn[2], promptIn[3])
    /\ UNCHANGED <<promptIn>>

-----------------------------------------------------------------------------
(* models.py: SeverityInfo, and main.py: parse_severity_json               *)
(* In a reply, a member "key": value of the JSON object is one symbol.     *)

\* the members that occur in replies: key, JSON type of the value, value
Members ==
    ("\"severity\": \"low\"" :>
        [key |-> "severity", type |-> "string", value |-> "low"]) @@
    ("\"severity\": \"critical\"" :>
        [key |-> "severity", type |-> "string", value |-> "critical"]) @@
    ("\"severity\": null" :>
        [key |-> "severity", type |-> "null", value |-> "null"]) @@
    ("\"recommended_action\": \"self_care\"" :>
        [key |-> "recommended_action", type |-> "string", value |-> "self_care"]) @@
    ("\"time_window\": [1]" :>
        [key |-> "time_window", type |-> "array", value |-> "[1]"]) @@
    ("\"time_window\": \"within 24 hours\"" :>
        [key |-> "time_window", type |-> "string", value |-> "within 24 hours"]) @@
    ("\"risk_notes\": \"mild symptoms\"" :>
        [key |-> "risk_notes", type |-> "string", value |-> "mild symptoms"]) @@
    ("\"confidence\": \"high\"" :>
        [key |-> "confidence", type |-> "string", value |-> "high"])

MemberSyms == DOMAIN Members

\* json.loads of the text between the braces: the list of members, or the
\* failure value when the text is no member list (members separated by single
\* commas, blanks allowed around them)
JsonError == <<[key |-> "", type |-> "JSONDecodeError", value |-> ""]>>

RECURSIVE JsonMembers(_, _, _)
JsonMembers(s, expectMember, acc) ==
    IF s = <<>> THEN (IF expectMember /\ acc # <<>> THEN JsonError ELSE acc)
    ELSE IF Head(s) \in Whitespace THEN JsonMembers(Tail(s), expectMember, acc)
    ELSE IF expectMember
         THEN IF Head(s) \in MemberSyms
              THEN JsonMembers(Tail(s), FALSE, Append(acc, Members[Head(s)]))
              ELSE JsonError
         ELSE IF Head(s) = "," THEN JsonMembers(Tail(s), TRUE, acc) ELSE JsonError

\* json.loads(json_str) for a json_str that starts with "{" and ends with "}"
json_loads(json_str) == JsonMembers(Slice(json_str, 1, Len(json_str) - 1), TRUE, <<>>)

\* data.get(key): the value of the last member with that key, None without one
RECURSIVE DictGet(_, _)
DictGet(data, key) ==
    IF data = <<>> THEN None
    ELSE LET last == data[Len(data)]
         IN  IF last.key = key
             THEN (IF last.type = "null" THEN None ELSE Some(last))
             ELSE DictGet(SubSeq(data, 1, Len(data) - 1), key)

SeverityLevels == {"low", "moderate", "high"}

\* pydantic's validation of one field of SeverityInfo
ValidSeverity(v) == v = None \/ (v[1].type = "string" /\ v[1].value \in SeverityLevels)
ValidText(v) == v = None \/ v[1].type = "string"

FieldValue(v) == IF v = None THEN None ELSE Some(v[1].value)

\* SeverityInfo(severity=..., recommended_action=..., time_window=..., risk_notes=...):
\* the model object, or ValidationError
SeverityInfo(severity, recommended_action, time_window, risk_notes) ==
    IF /\ ValidSeverity(severity) /\ ValidText(recommended_action)
       /\ ValidText(time_window) /\ ValidText(risk_notes)
    THEN [ok |-> TRUE,
          value |-> [severity |-> FieldValue(severity),
                     recommended_action |-> FieldValue(recommended_action),
                     time_window |-> FieldValue(time_window),
                     risk_notes |-> FieldValue(risk_notes)]]
    ELSE [ok |-> FALSE, value |-> "ValidationError"]

\* parse_severity_json(raw_output): <<"return", answer, severity>> or
\* <<"raise", exception>>
parse_severity_json(raw_output) ==
    LET idx == Find(raw_output, Marker)
    IN  IF idx = -1 THEN <<"return", Strip(raw_output), None>>
        ELSE
        LET answer_text == Strip(Slice(raw_output, 0, idx))
            json_candidate == Strip(Slice(raw_output, idx + Len(Marker), Len(raw_output)))
            start == Find(json_candidate, <<"{">>)
            end == RFind(json_candidate, <<"}">>)
        IN  IF start = -1 \/ end = -1 \/ end <= start THEN <<"return", answer_text, None>>
            ELSE
            LET data == json_loads(Slice(json_candidate, start, end + 1))
            IN  IF data = JsonError THEN <<"return", answer_text, None>>
                ELSE
                LET severity_info ==
                        SeverityInfo(DictGet(data, "severity"),
                                     DictGet(data, "recommended_action"),
                                     DictGet(data, "time_window"),
                                     DictGet(data, "risk_notes"))
                IN  IF severity_info.ok
                    THEN <<"return", answer_text, Some(severity_info.value)>>
                    ELSE <<"raise", severity_info.value>>

\* replies given to parse_severity_json: an answer, perhaps the marker, perhaps
\* an opening brace, a body, perhaps a closing brace, perhaps trailing text
AlphaBody == MemberSyms \cup {",", " ", "junk"}

Replies ==
    { pre \o mk \o open \o body \o close \o post :
        pre \in {<<>>, <<" ", "Rest.", "\n">>},
        mk \in {<<>>, Marker},
        open \in {<<>>, <<"{">>, <<" ", "{">>},
        body \in SeqsUpTo(AlphaBody, MaxBody),
        close \in {<<>>, <<"}">>},
        post \in {<<>>, <<"}", "{">>} }

InitParse ==
    /\ parseIn \in Replies
    /\ parseOut = None

\* one call parse_severity_json(raw_output)
ParseReply ==
    /\ parseOut = None
    /\ parseOut' = parse_severity_json(parseIn)
    /\ UNCHANGED <<parseIn>>

-----------------------------------------------------------------------------
(* main.py: ask_medical, and inference.py: call_llm                        *)
(* Temperatures are in tenths: 0.2 is 2 and 1.5 is 15.                     *)

DefaultTemperature == 2
DefaultMaxTokens == 512
MinTemperature == 0
MaxTemperature == 15
MinTokens == 64
MaxTokens == 1024

\* min(a, b) and max(a, b) of Python
PyMin(a, b) == IF b < a THEN b ELSE a
PyMax(a, b) == IF b > a THEN b ELSE a

\* clamp_max_tokens without the upper limit
clamp_max_tokens_NoUpper(max_tokens) == PyMax(MinTokens, max_tokens)

clamp_temperature(temperature) == PyMax(MinTemperature, PyMin(temperature, MaxTemperature))
clamp_max_tokens(max_tokens) == PyMax(MinTokens, PyMin(max_tokens, MaxTokens))

EmergencyAnswer ==
    <<"Your description contains signs that may indicate a medical emergency. ... For safety reasons, this system will not provide further online analysis or advice for potential emergency situations.">>

SafetyResult(pair) == [level |-> pair[1], message |-> pair[2]]

AskResponse(answer, safety, severity, used_prompt) ==
    [answer |-> answer, safety |-> safety, severity |-> severity, used_prompt |-> used_prompt]

\* what the caller has before the handler answers
NoResponse == [status |-> 0, detail |-> <<>>, body |-> None]

\* ask_medical_begin without the emergency return
ask_medical_begin_NoShortCircuit(request) ==
    LET question == Strip(request.question)
    IN  IF question = <<>>
        THEN [outcome |-> "raise",
              response |-> [status |-> 400, detail |-> <<"Question cannot be empty.">>,
                            body |-> None],
              ran |-> {}]
        ELSE
        LET safety_result == SafetyResult(safety_check(question))
            prompt == build_prompt(request.task_type, question, request.language)
            temperature == IF request.temperature # None THEN request.temperature[1]
                           ELSE DefaultTemperature
            max_tokens == IF request.max_tokens # None THEN request.max_tokens[1]
                          ELSE DefaultMaxTokens
        IN  [outcome |-> "call_llm",
             locals |-> [safety_result |-> safety_result, prompt |-> prompt],
             args |-> [prompt |-> prompt,
                       max_tokens |-> clamp_max_tokens(max_tokens),
                       temperature |-> clamp_temperature(temperature)],
             ran |-> {"safety_check", "build_prompt", "call_llm"}]

\* ask_medical_begin without the test for an empty question
ask_medical_begin_NoEmptyCheck(request) ==
    LET question == Strip(request.question)
        safety_result == SafetyResult(safety_check(question))
    IN  IF safety_result.level = "emergency"
        THEN [outcome |-> "return",
              response |-> [status |-> 200, detail |-> <<>>,
                            body |-> Some(AskResponse(EmergencyAnswer, safety_result,
                                                      None, None))],
              ran |-> {"safety_check"}]
        ELSE
        LET prompt == build_prompt(request.task_type, question, request.language)
            temperature == IF request.temperature # None THEN request.temperature[1]
                           ELSE DefaultTemperature
            max_tokens == IF request.max_tokens # None THEN request.max_tokens[1]
                          ELSE DefaultMaxTokens
        IN  [outcome |-> "call_llm",
             locals |-> [safety_result |-> safety_result, prompt |-> prompt],
             args |-> [prompt |-> prompt,
                       max_tokens |-> clamp_max_tokens(max_tokens),
                       temperature |-> clamp_temperature(temperature)],
             ran |-> {"safety_check", "build_prompt", "call_llm"}]

\* ask_medical from its first line to the call of call_llm: it raises
\* HTTPException(400), returns the emergency response, or calls call_llm
ask_medical_begin(request) ==
    LET question == Strip(request.question)
    IN  IF question = <<>>
        THEN [outcome |-> "raise",
              response |-> [status |-> 400, detail |-> <<"Question cannot be empty.">>,
                            body |-> None],
              ran |-> {}]
        ELSE
        LET safety_result == SafetyResult(safety_check(question))
        IN  IF safety_result.level = "emergency"
            THEN [outcome |-> "return",
                  response |-> [status |-> 200, detail |-> <<>>,
                                body |-> Some(AskResponse(EmergencyAnswer, safety_result,
                                                          None, None))],
                  ran |-> {"safety_check"}]
            ELSE
            LET prompt == build_prompt(request.task_type, question, request.language)
                temperature == IF request.temperature # None THEN request.temperature[1]
                               ELSE DefaultTemperature
                max_tokens == IF request.max_tokens # None THEN request.max_tokens[1]
                              ELSE DefaultMaxTokens
            IN  [outcome |-> "call_llm",
                 locals |-> [safety_result |-> safety_result, prompt |-> prompt],
                 args |-> [prompt |-> prompt,
                           max_tokens |-> clamp_max_tokens(max_tokens),
                           temperature |-> clamp_temperature(temperature)],
                 ran |-> {"safety_check", "build_prompt", "call_llm"}]

\* ask_medical_except answering with the safety result instead of failing
ask_medical_except_Partial(locals, e) ==
    [status |-> 200, detail |-> <<>>,
     body |-> Some(AskResponse(<<"Error calling LLM: ", e>>, locals.safety_result,
                               None, Some(locals.prompt)))]

\* the except branch around call_llm: HTTPException(500) with the failure text
ask_medical_except(locals, e) ==
    [status |-> 500, detail |-> <<"Error calling LLM: ", e>>, body |-> None]

\* ask_medical after call_llm returned: the response, or the exception that
\* parse_severity_json let through, which the framework answers with 500
ask_medical_end(locals, raw_output) ==
    LET parsed == parse_severity_json(raw_output)
    IN  IF parsed[1] = "raise"
        THEN [outcome |-> "raise",
              response |-> [status |-> 500, detail |-> <<"Internal Server Error">>,
                            body |-> None]]
        ELSE [outcome |-> "return",
              response |-> [status |-> 200, detail |-> <<>>,
                            body |-> Some(AskResponse(parsed[2], locals.safety_result,
                                                      parsed[3], Some(locals.prompt)))]]

\* the requests sent to /api/ask
QBlank == <<" ", "\n">>
QEmergency == <<" ", "I have ", "chest pain", " ", "radiat", "ing to my ", "left ", "arm", " ">>
QWarning == <<"I have ", "severe pain", " in my knee">>
QSafe == <<"What are common causes of a mild headache", "?">>

Samplings ==
    { <<None, None>>, <<Some(-10), Some(5000)>>, <<Some(20), Some(5)>>,
      <<Some(7), Some(100)>> }

AskRequests ==
    { [question |-> q, task_type |-> "medical_qa", language |-> "zh",
       temperature |-> None, max_tokens |-> None] : q \in {<<>>, QBlank, QEmergency} }
    \cup
    { [question |-> QSafe, task_type |-> "education", language |-> "en",
       temperature |-> sp[1], max_tokens |-> sp[2]] : sp \in Samplings }
    \cup
    { [question |-> QWarning, task_type |-> "drug", language |-> "zh",
       temperature |-> Some(15), max_tokens |-> Some(64)],
      [question |-> QEmergency, task_type |-> "diagnosis", language |-> "en",
       temperature |-> Some(-10), max_tokens |-> Some(5000)] }

\* what call_llm returns, and the failures it raises
LlmReplies ==
    { <<"Rest and drink water.", "\n">>,
      <<"Rest and drink water.", "\n">> \o Marker
          \o <<"{", "\"severity\": \"low\"", ",", "\"risk_notes\": \"mild symptoms\"", "}">>,
      <<"Rest and drink water.", "\n">> \o Marker \o <<"{", "\"severity\": \"critical\"", "}">> }
LlmErrors == { "429 Too Many Requests" }

Req == 1..NumReq

NoCalls == [safety_check |-> 0, build_prompt |-> 0, call_llm |-> 0, parse_severity_json |-> 0]

\* the counters after the stages of "ran" ran once more
Count1(c, ran) == [k \in DOMAIN c |-> IF k \in ran THEN c[k] + 1 ELSE c[k]]

RestOrch ==
    /\ pc = [r \in Req |-> "idle"]
    /\ req = [r \in Req |-> None]
    /\ loop = 0
    /\ resp = [r \in Req |-> NoResponse]
    /\ frame = [r \in Req |-> None]
    /\ llmArgs = [r \in Req |-> None]
    /\ llmResult = [r \in Req |-> None]
    /\ calls = [r \in Req |-> NoCalls]

\* the variables of the other parts, at rest
RestSafety == safetyIn = None /\ safetyOut = None
RestPrompt == promptIn = None /\ promptOut = None
RestParse == parseIn = None /\ parseOut = None

OrchVars == <<pc, req, loop, resp, frame, llmArgs, llmResult, calls>>
SafetyVars == <<safetyIn, safetyOut>>
PromptVars == <<promptIn, promptOut>>
ParseVars == <<parseIn, parseOut>>

\* a client posts a request; the server queues its handler on the event loop
Receive(r) ==
    /\ pc[r] = "idle"
    /\ \E request \in AskRequests : req' = [req EXCEPT ![r] = Some(request)]
    /\ pc' = [pc EXCEPT ![r] = "received"]
    /\ UNCHANGED <<loop, resp, frame, llmArgs, llmResult, calls>>
    /\ UNCHANGED <<SafetyVars, PromptVars, ParseVars>>

\* the event loop runs the handler of r.  ask_medical is a coroutine with no
\* await in it, so it runs on the loop's thread until it returns or raises;
\* call_llm is an ordinary blocking call, during which r keeps the thread.
Handle(r) ==
    /\ loop = 0
    /\ pc[r] = "received"
    /\ LET step == ask_medical_begin(req[r][1])
       IN  /\ calls' = [calls EXCEPT ![r] = Count1(@, step.ran)]
           /\ IF step.outcome = "call_llm"
              THEN /\ pc' = [pc EXCEPT ![r] = "invoked"]
                   /\ loop' = r
                   /\ frame' = [frame EXCEPT ![r] = Some(step.locals)]
                   /\ llmArgs' = [llmArgs EXCEPT ![r] = Some(step.args)]
                   /\ UNCHANGED resp
              ELSE /\ pc' = [pc EXCEPT ![r] =
                                IF step.outcome = "raise" THEN "rejected" ELSE "done"]
                   /\ resp' = [resp EXCEPT ![r] = step.response]
                   /\ UNCHANGED <<loop, frame, llmArgs>>
    /\ UNCHANGED <<req, llmResult>>
    /\ UNCHANGED <<SafetyVars, PromptVars, ParseVars>>

\* call_llm returns the reply; the handler parses it and answers
LlmReturns(r) ==
    /\ pc[r] = "invoked"
    /\ \E raw_output \in LlmReplies :
         LET step == ask_medical_end(frame[r][1], raw_output)
         IN  /\ llmResult' = [llmResult EXCEPT ![r] = <<"return", raw_output>>]
             /\ resp' = [resp EXCEPT ![r] = step.response]
             /\ pc' = [pc EXCEPT ![r] =
                          IF step.outcome = "raise" THEN "crashed" ELSE "done"]
    /\ calls' = [calls EXCEPT ![r] = Count1(@, {"parse_severity_json"})]
    /\ loop' = 0
    /\ frame' = [frame EXCEPT ![r] = None]
    /\ UNCHANGED <<req, llmArgs>>
    /\ UNCHANGED <<SafetyVars, PromptVars, ParseVars>>

\* call_llm raises; the handler answers with the failure
LlmRaises(r) ==
    /\ pc[r] = "invoked"
    /\ \E e \in LlmErrors :
         /\ llmResult' = [llmResult EXCEPT ![r] = <<"raise", <<e>>>>]
         /\ resp' = [resp EXCEPT ![r] = ask_medical_except(frame[r][1], e)]
    /\ pc' = [pc EXCEPT ![r] = "failed"]
    /\ loop' = 0
    /\ frame' = [frame EXCEPT ![r] = None]
    /\ UNCHANGED <<req, llmArgs, calls>>
    /\ UNCHANGED <<SafetyVars, PromptVars, ParseVars>>

Init == RestOrch /\ RestSafety /\ RestPrompt /\ RestParse

Next == \E r \in Req : Receive(r) \/ Handle(r) \/ LlmReturns(r) \/ LlmRaises(r)

Spec == Init /\ [][Next]_vars

-----------------------------------------------------------------------------
(* safety_check on its own: every text of SafetyTexts is classified once.  *)

InitS == InitSafety /\ RestOrch /\ RestPrompt /\ RestParse

NextS == SafetyCheck /\ UNCHANGED <<OrchVars, PromptVars, ParseVars>>

SpecSafety == InitS /\ [][NextS]_vars

\* the sentences of a text, as a set
SentencesOf(text) == {split_sentences(text)[i] : i \in 1..Len(split_sentences(text))}

\* a sentence that fires the chest-pain rule, for a given radiating list
C7_SentenceFires(s, radiating) ==
    /\ ContainsAny(s, chest_pain_terms)
    /\ ~ContainsAny(s, NEG_WORDS)
    /\ ContainsAny(s, radiating \cup sob_terms \cup sweating_terms)

\* C7 (amended): safety_check returns the cardiac emergency result exactly when
\* some sentence contains a chest-pain keyword, none of NEG_WORDS, and one of
\* the keywords of the code's radiating list ("left arm", not any "arm"), of its
\* shortness-of-breath list or of its sweating list.  So "chest pain" with
\* "radiat" in one sentence without a negation keyword is an emergency, and a
\* text whose chest-pain sentences all contain a negation keyword is never the
\* cardiac emergency.
C7_CardiacExactly ==
    safetyOut # None =>
        /\ (safetyOut = <<"emergency", MsgCardiac>>)
              <=> \E s \in SentencesOf(safetyIn) : C7_SentenceFires(s, radiating_terms)
        /\ (\E s \in SentencesOf(safetyIn) :
                /\ Contains(s, <<"chest pain">>) /\ Contains(s, <<"radiat">>)
                /\ ~ContainsAny(s, NEG_WORDS))
              => safetyOut[1] = "emergency"
        /\ (\A s \in SentencesOf(safetyIn) :
                ContainsAny(s, chest_pain_terms) => ContainsAny(s, NEG_WORDS))
              => safetyOut # <<"emergency", MsgCardiac>>

\* chest pain with the left arm in one sentence was classified the cardiac
\* emergency
C7_Witness ==
    /\ safetyIn = <<"chest pain", " ", "left ", "arm">>
    /\ safetyOut = <<"emergency", MsgCardiac>>

\* the radiating list with any "arm" in place of "left arm"
C7_ClaimRadiating == (radiating_terms \ {<<"left ", "arm">>}) \cup {<<"arm">>}

\* C7 as stated: the cardiac emergency exactly when a sentence has a chest-pain
\* keyword, no negation keyword and a radiating keyword (arm, jaw, back,
\* shoulder, radiating), a shortness-of-breath keyword or a sweating keyword
C7_Original ==
    safetyOut # None =>
        ((safetyOut = <<"emergency", MsgCardiac>>)
            <=> \E s \in SentencesOf(safetyIn) : C7_SentenceFires(s, C7_ClaimRadiating))

\* the text holds a keyword of cluster 2, 4 or 5
C8_WholeTextCue(text) ==
    \/ ContainsAny(Lower(text), breathing_terms_en \cup stroke_terms_en \cup suicide_terms_en)
    \/ ContainsAny(text, breathing_terms_zh \cup stroke_terms_zh \cup suicide_terms_zh)

\* C8: a text that contains, anywhere and in any letter case, a "cannot
\* breathe" keyword, a stroke keyword or a suicidal-ideation keyword is
\* classified emergency, whatever else it contains.
C8_WholeTextEmergency ==
    (safetyOut # None /\ C8_WholeTextCue(safetyIn)) => safetyOut[1] = "emergency"

\* an upper-case suicide keyword after a negation keyword, beside a warning keyword
C8_Witness ==
    /\ safetyOut # None
    /\ safetyIn = <<"no", " ", "SUICIDE", "severe pain">>
    /\ safetyOut[1] = "emergency"

\* some emergency cluster fires; the message of the first one that does
C10_Emergency(text) ==
    \/ CardiacCluster(split_sentences(text))
    \/ BreathingCluster(Lower(text), text)
    \/ GICluster(split_sentences(text))
    \/ StrokeCluster(Lower(text), text)
    \/ SuicideCluster(Lower(text), text)

C10_FirstMessage(text) ==
    CASE CardiacCluster(split_sentences(text)) -> MsgCardiac
      [] BreathingCluster(Lower(text), text) -> MsgBreathing
      [] GICluster(split_sentences(text)) -> MsgGI
      [] StrokeCluster(Lower(text), text) -> MsgStroke
      [] OTHER -> MsgSuicide

\* C10: safety_check is a first-match cascade, emergency before warning before
\* safe: one (level, message) pair; warning exactly when no emergency cluster
\* fires and the text has a warning keyword, negated or not; safe exactly when
\* no cluster fires; emergency whenever an emergency cluster fires, with the
\* message of the first cluster that fires.
C10_Cascade ==
    safetyOut # None =>
        /\ safetyOut \in
             ({"emergency"} \X {MsgCardiac, MsgBreathing, MsgGI, MsgStroke, MsgSuicide})
               \cup {<<"warning", MsgWarning>>, <<"safe", MsgSafe>>}
        /\ (safetyOut[1] = "warning")
              <=> (~C10_Emergency(safetyIn) /\ has_warning(Lower(safetyIn), safetyIn))
        /\ (safetyOut[1] = "safe")
              <=> (~C10_Emergency(safetyIn) /\ ~has_warning(Lower(safetyIn), safetyIn))
        /\ C10_Emergency(safetyIn)
              => safetyOut = <<"emergency", C10_FirstMessage(safetyIn)>>

\* a negated GI-bleeding keyword, which is also a warning keyword, gave warning
C10_Witness ==
    /\ safetyIn = <<"no", " ", "vomiting blood">>
    /\ safetyOut = <<"warning", MsgWarning>>

-----------------------------------------------------------------------------
(* build_prompt on its own, and parse_severity_json on its own.            *)

InitP == InitPrompt /\ RestOrch /\ RestSafety /\ RestParse

NextP == BuildPrompt /\ UNCHANGED <<OrchVars, SafetyVars, ParseVars>>

SpecPrompt == InitP /\ [][NextP]_vars

InitJ == InitParse /\ RestOrch /\ RestSafety /\ RestPrompt

NextJ == ParseReply /\ UNCHANGED <<OrchVars, SafetyVars, PromptVars>>

SpecParse == InitJ /\ [][NextJ]_vars

\* the directive of a language, and the directive of the other one
C9_Directive(language) == IF language = "zh" THEN LangZh ELSE LangEn
C9_OtherDirective(language) == IF language = "zh" THEN LangEn ELSE LangZh

\* C9 (amended): for every task_type, question and language build_prompt
\* returns a prompt that contains the question, contains the directive of the
\* requested language, contains the other directive only if the question
\* does, and contains the marker once outside the question: exactly once if
\* and only if the question does not contain it.
C9_PromptShape ==
    promptOut # None =>
        LET question == promptIn[2]
            language == promptIn[3]
        IN  /\ Contains(promptOut, question)
            /\ Contains(promptOut, C9_Directive(language))
            /\ Contains(promptOut, C9_OtherDirective(language))
                  <=> Contains(question, C9_OtherDirective(language))
            /\ Count(promptOut, Marker) = 1 + Count(question, Marker)

\* a prompt was built for an unrecognized task type and a question that holds
\* the marker
C9_Witness ==
    /\ promptOut # None
    /\ promptIn[1] \notin TaskTypes
    /\ Contains(promptIn[2], Marker)

\* C9 as stated: the marker exactly once and never the other directive
C9_Original ==
    promptOut # None =>
        /\ Contains(promptOut, promptIn[2])
        /\ Contains(promptOut, C9_Directive(promptIn[3]))
        /\ ~Contains(promptOut, C9_OtherDirective(promptIn[3]))
        /\ Count(promptOut, Marker) = 1

\* the result the graceful parser gives: a field is absent unless valid
C2_Field(data, key, valid(_)) ==
    LET v == DictGet(data, key)
    IN  IF valid(v) THEN FieldValue(v) ELSE None

C2_Expected(raw_output) ==
    LET idx == Find(raw_output, Marker)
        after == Slice(raw_output, idx + Len(Marker), Len(raw_output))
        start == Find(after, <<"{">>)
        end == RFind(after, <<"}">>)
        data == json_loads(Slice(after, start, end + 1))
    IN  IF idx = -1 THEN <<"return", Strip(raw_output), None>>
        ELSE IF start = -1 \/ end = -1 \/ end <= start \/ data = JsonError
             THEN <<"return", Strip(Slice(raw_output, 0, idx)), None>>
             ELSE <<"return", Strip(Slice(raw_output, 0, idx)),
                    Some([severity |-> C2_Field(data, "severity", ValidSeverity),
                          recommended_action |-> C2_Field(data, "recommended_action", ValidText),
                          time_window |-> C2_Field(data, "time_window", ValidText),
                          risk_notes |-> C2_Field(data, "risk_notes", ValidText)])>>

\* C2: parse_severity_json returns an (answer, severity) pair for every reply
\* and never raises: without the marker the trimmed reply and no severity;
\* with the marker but no parsable JSON block the trimmed text before the
\* marker and no severity; with a parsable block each of the four fields is
\* absent when missing or of unexpected shape and kept otherwise.
C2_NeverRaises ==
    parseOut # None => parseOut = C2_Expected(parseIn)

-----------------------------------------------------------------------------
(* Claims about ask_medical.                                               *)

\* the stripped question of request r
Question(r) == Strip(req[r][1].question)

\* C1: a request whose stripped question safety_check classifies emergency
\* ends, as soon as its handler runs, in the response with the fixed emergency
\* text, the classifier's (level, message), no severity and no used_prompt;
\* the prompt is never built and call_llm is never invoked for it.
C1_EmergencyShortCircuit ==
    \A r \in Req :
        (/\ req[r] # None
         /\ Question(r) # <<>>
         /\ safety_check(Question(r))[1] = "emergency")
        => /\ pc[r] \in {"received", "done"}
           /\ calls[r].build_prompt = 0
           /\ calls[r].call_llm = 0
           /\ llmArgs[r] = None
           /\ llmResult[r] = None
           /\ pc[r] = "done" =>
                /\ calls[r].safety_check = 1
                /\ resp[r] =
                     [status |-> 200, detail |-> <<>>,
                      body |-> Some([answer |-> EmergencyAnswer,
                                     safety |-> [level |-> "emergency",
                                                 message |-> safety_check(Question(r))[2]],
                                     severity |-> None,
                                     used_prompt |-> None])]

\* the chest-pain question was answered with the emergency response
C1_Witness ==
    \E r \in Req :
        /\ pc[r] = "done"
        /\ req[r][1].question = QEmergency
        /\ resp[r].body[1].safety.level = "emergency"

\* C3: a question that is empty after trimming is rejected with status 400
\* before any processing: no safety_check, no build_prompt, no call_llm, no
\* AskResponse.
C3_EmptyRejected ==
    \A r \in Req :
        (req[r] # None /\ Question(r) = <<>>)
        => /\ pc[r] \in {"received", "rejected"}
           /\ calls[r] = NoCalls
           /\ llmArgs[r] = None
           /\ resp[r].body = None
           /\ pc[r] = "rejected" =>
                /\ resp[r].status = 400
                /\ resp[r].detail = <<"Question cannot be empty.">>

\* a whitespace-only question was rejected
C3_Witness ==
    \E r \in Req :
        /\ pc[r] = "rejected"
        /\ req[r][1].question = QBlank
        /\ resp[r].status = 400

\* C4: while one request waits on its call of call_llm, another request that
\* has been received can be handled (classified, short-circuited, or start
\* its own call): its handler is enabled.
C4_NotSerialized ==
    \A r, q \in Req :
        (pc[r] = "invoked" /\ pc[q] = "received") => ENABLED Handle(q)

\* C5: when call_llm raises, the request fails with status 500 and the failure
\* text: call_llm was tried once, the parser did not run, and the response
\* has no body (no answer, safety, severity or used_prompt).
C5_LlmFailure ==
    \A r \in Req :
        (llmResult[r] # None /\ llmResult[r][1] = "raise")
        => /\ pc[r] = "failed"
           /\ resp[r].status = 500
           /\ resp[r].detail = <<"Error calling LLM: ">> \o llmResult[r][2]
           /\ resp[r].body = None
           /\ calls[r].call_llm = 1
           /\ calls[r].parse_severity_json = 0

\* call_llm raised for a request
C5_Witness ==
    \E r \in Req :
        /\ llmResult[r] # None /\ llmResult[r][1] = "raise"
        /\ pc[r] = "failed"

\* the value passed for an optional parameter
C6_Expected(opt, default, low, high) ==
    IF opt = None THEN default
    ELSE IF opt[1] < low THEN low
    ELSE IF opt[1] > high THEN high
    ELSE opt[1]

\* C6: the arguments passed to call_llm satisfy 64 <= max_tokens <= 1024 and
\* 0.0 <= temperature <= 1.5: the defaults 512 and 0.2 when unspecified, the
\* value itself when in range, the nearer limit when out of range; and no
\* request is rejected for its sampling parameters.
C6_Clamped ==
    \A r \in Req :
        /\ llmArgs[r] # None =>
             /\ llmArgs[r][1].max_tokens \in 64..1024
             /\ llmArgs[r][1].temperature \in 0..15
             /\ llmArgs[r][1].max_tokens = C6_Expected(req[r][1].max_tokens, 512, 64, 1024)
             /\ llmArgs[r][1].temperature = C6_Expected(req[r][1].temperature, 2, 0, 15)
        /\ (/\ pc[r] \notin {"idle", "received"}
            /\ Question(r) # <<>>
            /\ safety_check(Question(r))[1] # "emergency")
           => llmArgs[r] # None /\ pc[r] # "rejected"

\* max_tokens 5000 and temperature -1 were passed as 1024 and 0.0
C6_Witness ==
    \E r \in Req :
        /\ llmArgs[r] # None
        /\ req[r][1].max_tokens = Some(5000)
        /\ req[r][1].temperature = Some(-10)
        /\ llmArgs[r][1].max_tokens = 1024
        /\ llmArgs[r][1].temperature = 0

\* C11: a request with a non-empty question that is not classified emergency
\* goes through classify, build prompt, invoke LLM, parse in that order, each
\* at most once and none before the one in front of it; call_llm is invoked
\* exactly once, with the prompt built from the request's task_type, trimmed
\* question and language; and when call_llm returns, a result is returned whose
\* used_prompt is the prompt passed to call_llm and whose safety field is the
\* classifier's result for the question.
C11_PipelineOrder ==
    \A r \in Req :
        (/\ pc[r] \notin {"idle", "received"}
         /\ Question(r) # <<>>
         /\ safety_check(Question(r))[1] # "emergency")
        => /\ calls[r].safety_check = 1
           /\ calls[r].build_prompt = 1
           /\ calls[r].call_llm = 1
           /\ calls[r].parse_severity_json <= 1
           /\ llmArgs[r] # None
           /\ llmArgs[r][1].prompt =
                build_prompt(req[r][1].task_type, Question(r), req[r][1].language)
           /\ calls[r].parse_severity_json = 1
                => (llmResult[r] # None /\ llmResult[r][1] = "return")
           /\ (llmResult[r] # None /\ llmResult[r][1] = "return")
                => /\ calls[r].parse_severity_json = 1
                   /\ pc[r] = "done"
                   /\ resp[r].status = 200
                   /\ resp[r].body # None
                   /\ resp[r].body[1].used_prompt = Some(llmArgs[r][1].prompt)
                   /\ resp[r].body[1].safety =
                        [level |-> safety_check(Question(r))[1],
                         message |-> safety_check(Question(r))[2]]

=============================================================================
